---- MODULE Spec2Model ----
(***************************************************************************)
(* Session-scoped agent cache and streaming gateway of the flash-loan      *)
(* agent API (src/flash-loan-agent/app.py).                                *)
(*                                                                         *)
(* All request handlers are coroutines running on one event loop.  A       *)
(* handler runs without interruption up to its next suspension point:      *)
(* get_or_create_agent, chat, delete_session, get_sessions and             *)
(* get_session_history contain no await, so each is one atomic action.     *)
(* The body of chat_stream.generate_response is suspended at every yield,  *)
(* so a stream in flight advances one step at a time, interleaved with     *)
(* every other request.                                                    *)
(***************************************************************************)
EXTENDS Naturals, Sequences, FiniteSets, TLC

VARIABLES
    agents_cache,   \* app.py:200  dict: cache key -> Agent instance
    agents,         \* every Agent instance constructed so far (index = identity)
    uuid_count,     \* number of uuid4() session ids minted so far
    requests,       \* every Send (POST /api/chat, /api/chat/stream) received so far
    store,          \* MongoDbStorage: the exchanges written by agent.run, in write order
    resp,           \* the response of the last non-Send request
    running,        \* FALSE once the lifespan shutdown ran
    tool            \* flash_loan_tools.py: a call of the get_contract_information tool

vars == <<agents_cache, agents, uuid_count, requests, store, resp, running, tool>>

(***************************************************************************)
(* Bounds of the model.                                                    *)
(***************************************************************************)
MaxRequests == 2     \* Sends (buffered and incremental) received in a run
MaxChunks == 2       \* chunks one agent.run hands out before it stops or raises

(***************************************************************************)
(* Input domains.  An Optional[str] is <<>> (None) or <<s>>.               *)
(***************************************************************************)
None == <<>>
Some(s) == <<s>>

Wallets == {"w"}
ClientSessionIds == {"s", "new"}

\* Text is a sequence of characters, so that str.strip() can be computed.
Texts == { <<>>, <<" ">>, <<"h", "i">> }
ErrorText == <<"E", "r", "r", "o", "r">>

(***************************************************************************)
(* Python dict operations on agents_cache.                                 *)
(***************************************************************************)
EmptyDict == [k \in {} |-> 0]

DictPut(d, k, v) == [x \in (DOMAIN d) \cup {k} |-> IF x = k THEN v ELSE d[x]]

DictDel(d, k) == [x \in (DOMAIN d) \ {k} |-> d[x]]

(***************************************************************************)
(* str.strip() and Python truthiness of a text.                            *)
(***************************************************************************)
IsSpace(c) == c \in {" ", "\t", "\n"}

RECURSIVE LStrip(_)
LStrip(t) == IF t # <<>> /\ IsSpace(Head(t)) THEN LStrip(Tail(t)) ELSE t

RECURSIVE RStrip(_)
RStrip(t) ==
    IF t # <<>> /\ IsSpace(t[Len(t)]) THEN RStrip(SubSeq(t, 1, Len(t) - 1)) ELSE t

Strip(t) == RStrip(LStrip(t))

\* Mutant: the truthiness test without .strip().
NonEmpty(t) == t # <<>>

\* `x and x.strip()` (app.py:104, app.py:311)
NonBlank(t) == t # <<>> /\ Strip(t) # <<>>

(***************************************************************************)
(* get_agent_for_session (app.py:50-85): mints a uuid4 session id when     *)
(* none is given and binds the new Agent to (session_id, user_id).  The    *)
(* n-th uuid4() is the string "u<n>": fresh, and never a client's string.  *)
(***************************************************************************)
Uuid(n) == "u" \o ToString(n)

get_agent_for_session(session_id, user_id, minted) ==
    [session_id |-> IF session_id = None THEN Uuid(minted + 1) ELSE session_id[1],
     user_id    |-> user_id]

(***************************************************************************)
(* The cache key of get_or_create_agent (app.py:233):                      *)
(*     f"{wallet_address}:{session_id or 'new'}"                           *)
(* `or` takes 'new' for None and for the empty string.                     *)
(***************************************************************************)
CacheKey(wallet_address, session_id) ==
    wallet_address \o ":" \o
        (IF session_id = None \/ session_id[1] = "" THEN "new" ELSE session_id[1])

\* f"{wallet_address}:{actual_session_id}" (app.py:241) and
\* f"{wallet_address}:{session_id}" (app.py:387)
PlainKey(wallet_address, session_id) == wallet_address \o ":" \o session_id

(***************************************************************************)
(* get_or_create_agent (app.py:228-251) as a function of the state it      *)
(* reads, in the steps of the code.  The result holds the new cache, the   *)
(* new list of instances and what the call returns.                        *)
(***************************************************************************)
Outcome(raised, cache, ags, minted, agent, session_id, built) ==
    [raised |-> raised, cache |-> cache, agents |-> ags, minted |-> minted,
     agent |-> agent, session_id |-> session_id, built |-> built]

\* Mutant: the membership test never finds the key.
cache_miss_always(cache, cache_key) == TRUE

\* `if cache_key not in agents_cache` (app.py:235)
cache_miss(cache, cache_key) == cache_key \notin DOMAIN cache

\* Mutant: the placeholder is stored before the constructor runs.
construction_failed_poisoned(cache, cache_key) == DictPut(cache, cache_key, 0)

\* The constructor raises at app.py:236: line 237 is not reached and the
\* cache is left as it was.
construction_failed(cache, cache_key) == cache

\* Mutant: the entry stays under the placeholder key.
rekey_skipped(cache, cache_key, new_cache_key, agent) == cache

\* The re-keying of a minted session (app.py:242-246).
rekey(cache, cache_key, new_cache_key, agent) ==
    IF new_cache_key # cache_key
    THEN LET c == DictPut(cache, new_cache_key, agent)
         IN  IF cache_key \in DOMAIN c THEN DictDel(c, cache_key) ELSE c
    ELSE cache

\* Mutant: the hit takes the entry out of the cache (dict.pop).
cache_hit_pop(cache, ags, minted, cache_key) ==
    Outcome(FALSE, DictDel(cache, cache_key), ags, minted, cache[cache_key],
            ags[cache[cache_key]].session_id, FALSE)

\* The cache hit (app.py:250-251).
cache_hit(cache, ags, minted, cache_key) ==
    Outcome(FALSE, cache, ags, minted, cache[cache_key],
            ags[cache[cache_key]].session_id, FALSE)

get_or_create_agent(cache, ags, minted, wallet_address, session_id, ctor_ok) ==
    LET cache_key == CacheKey(wallet_address, session_id) IN
    IF cache_miss(cache, cache_key)
    THEN IF ~ctor_ok
         THEN Outcome(TRUE, construction_failed(cache, cache_key), ags, minted,
                      0, "", FALSE)
         ELSE LET new   == get_agent_for_session(session_id, wallet_address, minted)
                  agent == Len(ags) + 1
                  c1    == DictPut(cache, cache_key, agent)
              IN  IF session_id = None
                  THEN LET actual_session_id == new.session_id
                           new_cache_key == PlainKey(wallet_address, actual_session_id)
                       IN  Outcome(FALSE, rekey(c1, cache_key, new_cache_key, agent),
                                   Append(ags, new), minted + 1, agent,
                                   actual_session_id, TRUE)
                  ELSE Outcome(FALSE, c1, Append(ags, new), minted, agent,
                               session_id[1], TRUE)
    ELSE cache_hit(cache, ags, minted, cache_key)

(***************************************************************************)
(* delete_session (app.py:380-396): removes the cache entry if present and *)
(* answers 200 either way; the Session Store is not touched (the deletion  *)
(* from storage at line 392 is a comment).                                 *)
(***************************************************************************)
DropSession(st, session_id) == SelectSeq(st, LAMBDA e : e.session_id # session_id)

\* Mutant: `del agents_cache[cache_key]` without the membership test, whose
\* KeyError the handler answers with 500.
delete_session_unguarded(cache, st, wallet_address, session_id) ==
    LET cache_key == PlainKey(wallet_address, session_id) IN
    [cache  |-> IF cache_key \in DOMAIN cache THEN DictDel(cache, cache_key) ELSE cache,
     store  |-> st,
     status |-> IF cache_key \in DOMAIN cache THEN 200 ELSE 500]

\* Mutant: the storage deletion of line 392 is live code.
delete_session_purging(cache, st, wallet_address, session_id) ==
    LET cache_key == PlainKey(wallet_address, session_id) IN
    [cache  |-> IF cache_key \in DOMAIN cache THEN DictDel(cache, cache_key) ELSE cache,
     store  |-> DropSession(st, session_id),
     status |-> 200]

delete_session(cache, st, wallet_address, session_id) ==
    LET cache_key == PlainKey(wallet_address, session_id) IN
    [cache  |-> IF cache_key \in DOMAIN cache THEN DictDel(cache, cache_key) ELSE cache,
     store  |-> st,
     status |-> 200]

(***************************************************************************)
(* The Session Store as this program uses it.  agent.run writes the        *)
(* exchange under the Agent's own (session_id, user_id) when the run ends  *)
(* normally; list_sessions (app.py:137-147) and load_session_history       *)
(* (app.py:149-161) read it and turn a store failure into [].              *)
(***************************************************************************)
Exchange(ags, agent, req) ==
    [session_id |-> ags[agent].session_id, user_id |-> ags[agent].user_id, req |-> req]

RECURSIVE SessionIdsOf(_, _)
SessionIdsOf(st, user_id) ==
    IF st = <<>> THEN {}
    ELSE (IF Head(st).user_id = user_id THEN {Head(st).session_id} ELSE {})
         \cup SessionIdsOf(Tail(st), user_id)

\* Mutant: the ids of every owner's sessions.
list_sessions_all(st, user_id, store_ok) ==
    IF store_ok THEN {st[k].session_id : k \in DOMAIN st} ELSE {}

list_sessions(st, user_id, store_ok) ==
    IF store_ok THEN SessionIdsOf(st, user_id) ELSE {}

RECURSIVE MessagesOf(_, _)
MessagesOf(st, session_id) ==
    IF st = <<>> THEN <<>>
    ELSE (IF Head(st).session_id = session_id THEN <<Head(st).req>> ELSE <<>>)
         \o MessagesOf(Tail(st), session_id)

\* Mutant: a failure of the store shows in the result.
load_session_history_failing(st, session_id, store_ok) ==
    IF store_ok THEN MessagesOf(st, session_id) ELSE <<0>>

load_session_history(st, session_id, store_ok) ==
    IF store_ok THEN MessagesOf(st, session_id) ELSE <<>>

(***************************************************************************)
(* A Send request and the events of its stream.                            *)
(***************************************************************************)
\* Mutant: the events carry no session id.
EventWithoutSession(type, content, error, session_id, wallet_address) ==
    [type |-> type, content |-> content, error |-> error,
     session_id |-> "", wallet_address |-> wallet_address]

Event(type, content, error, session_id, wallet_address) ==
    [type |-> type, content |-> content, error |-> error,
     session_id |-> session_id, wallet_address |-> wallet_address]

InFlight(r) == r.kind = "stream" /\ r.pc \in {"start", "streaming", "ended"}

\* The request as the handler leaves it: an exception of the resolution is
\* answered with HTTPException(500) (app.py:286-287, app.py:348-349).
NewRequest(kind, wallet_address, session_id, res, pc, reply) ==
    [kind |-> kind, wallet_address |-> wallet_address, req_session_id |-> session_id,
     status |-> IF res.raised THEN 500 ELSE 200,
     agent |-> res.agent, session_id |-> res.session_id, built |-> res.built,
     stale |-> FALSE, pc |-> IF res.raised THEN "failed" ELSE pc,
     events |-> <<>>, pulled |-> 0, reply |-> reply]

\* Ghost: a request whose Agent has been dropped from the cache since it resolved.
MarkStale(reqs, cache, cache2) ==
    [i \in DOMAIN reqs |->
        IF reqs[i].agent # 0
           /\ (\E k \in DOMAIN cache : cache[k] = reqs[i].agent)
           /\ ~(\E k \in DOMAIN cache2 : cache2[k] = reqs[i].agent)
        THEN [reqs[i] EXCEPT !.stale = TRUE] ELSE reqs[i]]

(***************************************************************************)
(* chat_with_agent_non_streaming (app.py:112-124): the reply text, or the  *)
(* text of the failure when agent.run raises.                              *)
(***************************************************************************)
chat_with_agent_non_streaming(run) ==
    IF run.raises THEN ErrorText ELSE run.content

(***************************************************************************)
(* POST /api/chat (app.py:268-287).                                        *)
(***************************************************************************)
Chat(wallet_address, session_id, ctor_ok, run) ==
    /\ running
    /\ Len(requests) < MaxRequests
    /\ LET res == get_or_create_agent(agents_cache, agents, uuid_count,
                                      wallet_address, session_id, ctor_ok)
           me  == Len(requests) + 1
       IN  /\ agents_cache' = res.cache
           /\ agents' = res.agents
           /\ uuid_count' = res.minted
           /\ requests' = Append(requests,
                  NewRequest("chat", wallet_address, session_id, res, "done",
                             IF res.raised THEN <<>>
                             ELSE chat_with_agent_non_streaming(run)))
           /\ store' = IF res.raised \/ run.raises THEN store
                       ELSE Append(store, Exchange(res.agents, res.agent, me))
    /\ UNCHANGED <<resp, running, tool>>

(***************************************************************************)
(* POST /api/chat/stream (app.py:289-349) up to the return of the          *)
(* StreamingResponse: the Agent is resolved, nothing is sent yet.          *)
(***************************************************************************)
ChatStream(wallet_address, session_id, ctor_ok) ==
    /\ running
    /\ Len(requests) < MaxRequests
    /\ LET res == get_or_create_agent(agents_cache, agents, uuid_count,
                                      wallet_address, session_id, ctor_ok)
       IN  /\ agents_cache' = res.cache
           /\ agents' = res.agents
           /\ uuid_count' = res.minted
           /\ requests' = Append(requests,
                  NewRequest("stream", wallet_address, session_id, res, "start", <<>>))
    /\ UNCHANGED <<store, resp, running, tool>>

(***************************************************************************)
(* What agent.run(user_input, stream=True) can do at one step of the       *)
(* iteration: hand out a chunk, raise, or stop.  "single" is agent.run     *)
(* returning one reply that is not iterable (app.py:106-108).  A chunk is  *)
(* falsy ("none"), or carries a str or a bytes content.                    *)
(***************************************************************************)
Chunk(kind, text) == [kind |-> kind, text |-> text]

Chunks == {Chunk("str", t) : t \in Texts} \cup {Chunk("bytes", <<"h", "i">>), Chunk("none", <<>>)}

RunStep(kind, chunk) == [kind |-> kind, chunk |-> chunk]

RunSteps ==
    {RunStep("chunk", c) : c \in Chunks}
    \cup {RunStep("single", Chunk("str", t)) : t \in Texts}
    \cup {RunStep("raise", Chunk("none", <<>>)), RunStep("stop", Chunk("none", <<>>))}

\* The run is over after this step: the generator of app.py:87-110 returns.
Ends(step) == step.kind \in {"single", "raise", "stop"}

Raise == RunStep("raise", Chunk("none", <<>>))

Stop == RunStep("stop", Chunk("none", <<>>))

(***************************************************************************)
(* chat_with_agent_streaming (app.py:87-110): what the generator yields    *)
(* for one step of the run, as a sequence of zero or one values.           *)
(***************************************************************************)
\* Mutant: the yield of the loop is lost; only the last value is handed out.
chat_with_agent_streaming_unyielding(step) ==
    CASE step.kind = "single" -> <<step.chunk>>
      [] step.kind = "raise"  -> <<Chunk("str", ErrorText)>>
      [] OTHER -> <<>>

chat_with_agent_streaming(step) ==
    CASE step.kind = "chunk" ->
            IF step.chunk.kind # "none" /\ NonBlank(step.chunk.text)
            THEN <<step.chunk>> ELSE <<>>
      [] step.kind = "single" -> <<step.chunk>>
      [] step.kind = "raise"  -> <<Chunk("str", ErrorText)>>
      [] OTHER -> <<>>

(***************************************************************************)
(* One resumption of chat_stream.generate_response (app.py:298-335) in its *)
(* for loop, given the step of the run it consumes: the request with the   *)
(* events sent so far and the place where the generator is suspended.      *)
(* json.dumps raises on a bytes content, which the except clause of line   *)
(* 328 turns into the error event.                                         *)
(***************************************************************************)
\* Mutant: the completion signal is sent after the error event as well.
send_error_then_complete(r) ==
    [r EXCEPT !.pc = "done",
              !.events = @ \o <<Event("error", <<>>, "TypeError",
                                      r.session_id, r.wallet_address),
                                Event("complete", <<>>, "",
                                      r.session_id, r.wallet_address)>>]

\* The except clause (app.py:328-335): the error event ends the stream.
send_error(r) ==
    [r EXCEPT !.pc = "done",
              !.events = Append(@, Event("error", <<>>, "TypeError",
                                         r.session_id, r.wallet_address))]

generate_response(r, step) ==
    LET ys   == chat_with_agent_streaming(step)
        fwd  == ys # <<>> /\ NonBlank(ys[1].text)
        seen == [r EXCEPT !.pulled = @ + 1]
    IN  IF fwd /\ ys[1].kind = "bytes"
        THEN send_error(seen)
        ELSE IF fwd
        THEN [seen EXCEPT !.pc = IF Ends(step) THEN "ended" ELSE "streaming",
                          !.events = Append(@, Event("content", ys[1].text, "",
                                                     r.session_id, r.wallet_address))]
        ELSE IF Ends(step)
        THEN [seen EXCEPT !.pc = "done",
                          !.events = Append(@, Event("complete", <<>>, "",
                                                     r.session_id, r.wallet_address))]
        ELSE seen

\* The first resumption: the session_info event (app.py:302-307).
StreamInfo(i) ==
    /\ i \in DOMAIN requests
    /\ requests[i].kind = "stream" /\ requests[i].pc = "start"
    /\ requests' = [requests EXCEPT
           ![i].pc = "streaming",
           ![i].events = Append(@, Event("session_info", <<>>, "",
                                         requests[i].session_id,
                                         requests[i].wallet_address))]
    /\ UNCHANGED <<agents_cache, agents, uuid_count, store, resp, running, tool>>

\* Mutant: what the Agent hands out goes to every stream that drives it.
StreamNextShared(i, step) ==
    /\ i \in DOMAIN requests
    /\ requests[i].kind = "stream" /\ requests[i].pc = "streaming"
    /\ Ends(step) \/ requests[i].pulled < MaxChunks
    /\ step.kind = "single" => requests[i].pulled = 0
    /\ requests' = [j \in DOMAIN requests |->
                       IF requests[j].kind = "stream" /\ requests[j].pc = "streaming"
                          /\ requests[j].agent = requests[i].agent
                       THEN generate_response(requests[j], step) ELSE requests[j]]
    /\ store' = IF step.kind \in {"single", "stop"}
                THEN Append(store, Exchange(agents, requests[i].agent, i))
                ELSE store
    /\ UNCHANGED <<agents_cache, agents, uuid_count, resp, running, tool>>

\* A resumption inside the for loop (app.py:310-318); agent.run stores the
\* exchange when it ends normally.
StreamNext(i, step) ==
    /\ i \in DOMAIN requests
    /\ requests[i].kind = "stream" /\ requests[i].pc = "streaming"
    /\ Ends(step) \/ requests[i].pulled < MaxChunks
    /\ step.kind = "single" => requests[i].pulled = 0
    /\ requests' = [requests EXCEPT ![i] = generate_response(@, step)]
    /\ store' = IF step.kind \in {"single", "stop"}
                THEN Append(store, Exchange(agents, requests[i].agent, i))
                ELSE store
    /\ UNCHANGED <<agents_cache, agents, uuid_count, resp, running, tool>>

\* Mutant: the generator returns after the loop without the complete event.
StreamEndSilent(i) ==
    /\ i \in DOMAIN requests
    /\ requests[i].kind = "stream" /\ requests[i].pc = "ended"
    /\ requests' = [requests EXCEPT ![i].pc = "done"]
    /\ UNCHANGED <<agents_cache, agents, uuid_count, store, resp, running, tool>>

\* The resumption after chat_with_agent_streaming yielded its last value:
\* the loop ends and the complete event is sent (app.py:320-326).
StreamEnd(i) ==
    /\ i \in DOMAIN requests
    /\ requests[i].kind = "stream" /\ requests[i].pc = "ended"
    /\ requests' = [requests EXCEPT ![i] =
           generate_response([@ EXCEPT !.pulled = @ - 1],
                             RunStep("stop", Chunk("none", <<>>)))]
    /\ UNCHANGED <<agents_cache, agents, uuid_count, store, resp, running, tool>>

\* Mutant: the close is reported to the closed stream as an error event.
DisconnectReported(i) ==
    /\ i \in DOMAIN requests
    /\ InFlight(requests[i])
    /\ requests' = [requests EXCEPT ![i] = [send_error(@) EXCEPT !.pc = "closed"]]
    /\ UNCHANGED <<agents_cache, agents, uuid_count, store, resp, running, tool>>

\* The client closes the connection: the generator is never resumed again.
Disconnect(i) ==
    /\ i \in DOMAIN requests
    /\ InFlight(requests[i])
    /\ requests' = [requests EXCEPT ![i].pc = "closed"]
    /\ UNCHANGED <<agents_cache, agents, uuid_count, store, resp, running, tool>>

(***************************************************************************)
(* The other endpoints.                                                    *)
(***************************************************************************)
\* existed is a ghost: whether the DELETE found its cache entry.
Response(op, status, wallet_address, session_id, sessions, history, existed) ==
    [op |-> op, status |-> status, wallet_address |-> wallet_address,
     session_id |-> session_id, sessions |-> sessions, history |-> history,
     existed |-> existed]

\* Mutant: the eviction also ends the streams that drive the evicted Agent.
DeleteSessionAborting(wallet_address, session_id) ==
    /\ running
    /\ LET res == delete_session(agents_cache, store, wallet_address, session_id)
           marked == MarkStale(requests, agents_cache, res.cache)
       IN  /\ agents_cache' = res.cache
           /\ store' = res.store
           /\ requests' = [i \in DOMAIN marked |->
                              IF marked[i].stale /\ InFlight(marked[i])
                              THEN [marked[i] EXCEPT !.pc = "closed"] ELSE marked[i]]
           /\ resp' = Response("delete", res.status, wallet_address, session_id, {}, <<>>,
                               PlainKey(wallet_address, session_id) \in DOMAIN agents_cache)
    /\ UNCHANGED <<agents, uuid_count, running, tool>>

\* DELETE /api/sessions/{wallet_address}/{session_id} (app.py:380-396)
DeleteSession(wallet_address, session_id) ==
    /\ running
    /\ LET res == delete_session(agents_cache, store, wallet_address, session_id)
       IN  /\ agents_cache' = res.cache
           /\ store' = res.store
           /\ requests' = MarkStale(requests, agents_cache, res.cache)
           /\ resp' = Response("delete", res.status, wallet_address, session_id, {}, <<>>,
                               PlainKey(wallet_address, session_id) \in DOMAIN agents_cache)
    /\ UNCHANGED <<agents, uuid_count, running, tool>>

\* Mutant: listing the sessions leaves an entry in the cache.
GetSessionsCaching(wallet_address, store_ok) ==
    /\ running
    /\ resp' = Response("sessions", 200, wallet_address, "",
                        list_sessions(store, wallet_address, store_ok), <<>>, FALSE)
    /\ agents_cache' = DictPut(agents_cache, PlainKey(wallet_address, "listed"), 0)
    /\ UNCHANGED <<agents, uuid_count, requests, store, running, tool>>

\* GET /api/sessions/{wallet_address} (app.py:351-363)
GetSessions(wallet_address, store_ok) ==
    /\ running
    /\ resp' = Response("sessions", 200, wallet_address, "",
                        list_sessions(store, wallet_address, store_ok), <<>>, FALSE)
    /\ UNCHANGED <<agents_cache, agents, uuid_count, requests, store, running, tool>>

\* Mutant: the history is read only for the owner of the session.
get_session_history_owned(st, wallet_address, session_id, store_ok) ==
    load_session_history(SelectSeq(st, LAMBDA e : e.user_id = wallet_address),
                         session_id, store_ok)

\* get_session_history (app.py:365-378): wallet_address is echoed in the
\* reply and takes no part in the lookup.
get_session_history(st, wallet_address, session_id, store_ok) ==
    load_session_history(st, session_id, store_ok)

\* GET /api/sessions/{wallet_address}/{session_id}/history (app.py:365-378)
GetSessionHistory(wallet_address, session_id, store_ok) ==
    /\ running
    /\ resp' = Response("history", 200, wallet_address, session_id, {},
                        get_session_history(store, wallet_address, session_id, store_ok),
                        FALSE)
    /\ UNCHANGED <<agents_cache, agents, uuid_count, requests, store, running, tool>>

\* GET /api/health (app.py:398-401)
HealthCheck ==
    /\ running
    /\ resp' = Response("health", 200, "", "", {}, <<>>, FALSE)
    /\ UNCHANGED <<agents_cache, agents, uuid_count, requests, store, running, tool>>

\* lifespan shutdown (app.py:207-209): agents_cache.clear()
Shutdown ==
    /\ running
    /\ running' = FALSE
    /\ agents_cache' = EmptyDict
    /\ requests' = MarkStale(requests, agents_cache, EmptyDict)
    /\ resp' = Response("shutdown", 200, "", "", {}, <<>>, FALSE)
    /\ UNCHANGED <<agents, uuid_count, store, tool>>

(***************************************************************************)
(* FlashLoanAPIClient.get_contract_info (flash_loan_tools.py:35-62) and    *)
(* FlashLoanAgentTools.get_contract_information (flash_loan_tools.py:      *)
(* 512-535).  An answer of the backend is a network failure or a status    *)
(* with a body; a body is empty, not JSON, a JSON object (with or without  *)
(* an "error" member) or another JSON value.                               *)
(***************************************************************************)
Statuses == {200, 404, 500}

Bodies == {"empty", "not_json", "object", "object_with_error", "array", "null"}

ApiResponses ==
    {[kind |-> "network_error", status_code |-> 0, content |-> "empty"]}
    \cup {[kind |-> "http", status_code |-> st, content |-> b] : st \in Statuses, b \in Bodies}

\* response.json(): the decoded value, or the JSONDecodeError, which is a
\* requests.exceptions.RequestException from requests 2.27 on and a plain
\* ValueError before.
response_json(response, new_requests) ==
    IF response.content \in {"empty", "not_json"}
    THEN [raised |-> IF new_requests THEN "RequestException" ELSE "ValueError",
          value |-> "none"]
    ELSE [raised |-> "", value |-> response.content]

ClientResult(raised, success, data, error) ==
    [raised |-> raised, success |-> success, data |-> data, error |-> error]

get_contract_info(response, new_requests) ==
    LET j == response_json(response, new_requests)
        caught(exc) == IF exc = "RequestException"
                       THEN ClientResult("", FALSE, "none", "Network error")
                       ELSE ClientResult(exc, FALSE, "none", "")
    IN  IF response.kind = "network_error" THEN caught("RequestException")
        ELSE IF response.status_code = 200
        THEN (IF j.raised # "" THEN caught(j.raised)
              ELSE ClientResult("", TRUE, j.value, ""))
        ELSE IF response.content = "empty"
        THEN ClientResult("", FALSE, "none", "HTTP status")
        ELSE IF j.raised # "" THEN caught(j.raised)
        ELSE IF j.value = "object_with_error"
        THEN ClientResult("", FALSE, "none", "error of the body")
        ELSE IF j.value = "object"
        THEN ClientResult("", FALSE, "none", "HTTP status")
        ELSE caught("AttributeError")

ToolResult(raised, text) == [raised |-> raised, text |-> text]

get_contract_information(response, new_requests) ==
    LET result == get_contract_info(response, new_requests)
    IN  IF result.raised # "" THEN ToolResult(result.raised, "")
        ELSE IF result.success
        THEN (IF result.data \in {"object", "object_with_error"}
              THEN ToolResult("", "Contract Information")
              ELSE ToolResult("AttributeError", ""))
        ELSE ToolResult("", "Failed to get contract info: " \o result.error)

NoToolCall ==
    [pc |-> "none", response |-> [kind |-> "none", status_code |-> 0, content |-> "empty"],
     new_requests |-> TRUE, result |-> ToolResult("", ""), reply |-> <<>>, events |-> <<>>]

\* The Agent calls the tool while it produces a reply.
ToolCall ==
    /\ tool.pc = "call"
    /\ tool' = [tool EXCEPT !.pc = "returned",
                            !.result = get_contract_information(tool.response,
                                                                tool.new_requests)]
    /\ UNCHANGED <<agents_cache, agents, uuid_count, requests, store, resp, running>>

\* The events of an incremental Send whose run stops after one fragment or
\* raises (generate_response driven to its end, app.py:298-335).
StreamOf(raises) ==
    LET r0 == [NewRequest("stream", "w", None,
                          Outcome(FALSE, EmptyDict, <<>>, 1, 1, Uuid(1), TRUE),
                          "streaming", <<>>)
                 EXCEPT !.events = <<Event("session_info", <<>>, "", Uuid(1), "w")>>]
        r1 == generate_response(r0, IF raises THEN Raise
                                    ELSE RunStep("single", Chunk("str", <<"h", "i">>)))
    IN  IF r1.pc = "ended"
        THEN generate_response([r1 EXCEPT !.pulled = @ - 1], Stop).events
        ELSE r1.events

\* The Send that triggered the call ends: agent.run passes an exception of
\* the tool on (propagates) or turns it into a reply of its own.
SendEnds(propagates) ==
    /\ tool.pc = "returned"
    /\ LET raises == tool.result.raised # "" /\ propagates
       IN  tool' = [tool EXCEPT
               !.pc = "ended",
               !.reply = chat_with_agent_non_streaming(
                             [raises |-> raises, content |-> <<"h", "i">>]),
               !.events = StreamOf(raises)]
    /\ UNCHANGED <<agents_cache, agents, uuid_count, requests, store, resp, running>>

(***************************************************************************)
(* The state machine.                                                      *)
(***************************************************************************)
OptSessionIds == {None} \cup {Some(s) : s \in ClientSessionIds}
                 \cup {Some(Uuid(n)) : n \in 1..uuid_count}

Runs == {[raises |-> TRUE, content |-> <<>>], [raises |-> FALSE, content |-> <<"h", "i">>]}

Init ==
    /\ agents_cache = EmptyDict
    /\ agents = <<>>
    /\ uuid_count = 0
    /\ requests = <<>>
    /\ store = <<>>
    /\ resp = Response("none", 200, "", "", {}, <<>>, FALSE)
    /\ running = TRUE
    /\ tool = NoToolCall

\* Session ids a client can name: its own strings and the ids minted so far.
KnownSessionIds == ClientSessionIds \cup {Uuid(n) : n \in 1..uuid_count}

\* The cache and its requests; every run stops or raises at once.
Next ==
    \/ \E w \in Wallets, s \in OptSessionIds, ok \in BOOLEAN, run \in Runs :
          Chat(w, s, ok, run)
    \/ \E w \in Wallets, s \in OptSessionIds, ok \in BOOLEAN : ChatStream(w, s, ok)
    \/ \E i \in 1..MaxRequests : StreamInfo(i)
    \/ \E i \in 1..MaxRequests, step \in {x \in RunSteps : x.kind \in {"raise", "stop"}} :
          StreamNext(i, step)
    \/ \E i \in 1..MaxRequests : StreamEnd(i)
    \/ \E i \in 1..MaxRequests : Disconnect(i)
    \/ \E w \in Wallets, s \in KnownSessionIds : DeleteSession(w, s)
    \/ Shutdown

Spec == Init /\ [][Next]_vars

\* The streams in full: every kind of chunk, on sessions minted per request.
NextStream ==
    \/ \E w \in Wallets, ok \in BOOLEAN : ChatStream(w, None, ok)
    \/ \E i \in 1..MaxRequests : StreamInfo(i)
    \/ \E i \in 1..MaxRequests, step \in RunSteps : StreamNext(i, step)
    \/ \E i \in 1..MaxRequests : StreamEnd(i)
    \/ \E i \in 1..MaxRequests : Disconnect(i)

SpecStream == Init /\ [][NextStream]_vars

\* Owners and session ids as any strings of a path or a body, the key
\* separator ":" included.
AnyWallets == {"w", "w:s"}

AnySessionIds == {"s", "s:s"}

AnyOptSessionIds == {None} \cup {Some(s) : s \in AnySessionIds}
                    \cup {Some(Uuid(n)) : n \in 1..uuid_count}

\* The buffered Send and the endpoints of the sessions, for every owner.
NextApi ==
    \/ \E w \in AnyWallets, s \in AnyOptSessionIds, ok \in BOOLEAN, run \in Runs :
          Chat(w, s, ok, run)
    \/ \E w \in AnyWallets, s \in AnySessionIds \cup {Uuid(n) : n \in 1..uuid_count} :
          DeleteSession(w, s)
    \/ \E w \in AnyWallets, store_ok \in BOOLEAN : GetSessions(w, store_ok)
    \/ \E w \in AnyWallets, s \in AnySessionIds, store_ok \in BOOLEAN :
          GetSessionHistory(w, s, store_ok)
    \/ HealthCheck

SpecApi == Init /\ [][NextApi]_vars

\* The steps of a run that lead to each way a stream can end.
LiveSteps ==
    {RunStep("chunk", Chunk("str", <<"h", "i">>)), RunStep("chunk", Chunk("bytes", <<"h", "i">>)),
     Raise, Stop}

\* Streams that resolved, on minted sessions and on one shared session,
\* whose connections stay open, with a response task that is resumed as long
\* as its generator can go on: the event loop runs the ready tasks in turn,
\* and agent.run ends within MaxChunks chunks.
NextLive ==
    \/ \E w \in Wallets, s \in {None, Some("s")} : ChatStream(w, s, TRUE)
    \/ \E i \in 1..MaxRequests : StreamInfo(i)
    \/ \E i \in 1..MaxRequests, step \in LiveSteps : StreamNext(i, step)
    \/ \E i \in 1..MaxRequests : StreamEnd(i)

SpecLive ==
    /\ Init
    /\ [][NextLive]_vars
    /\ \A i \in 1..MaxRequests :
          /\ WF_vars(StreamInfo(i))
          /\ WF_vars(\E step \in LiveSteps : StreamNext(i, step))
          /\ WF_vars(StreamEnd(i))

\* The tool called under every answer of the backend.
InitTools ==
    /\ agents_cache = EmptyDict
    /\ agents = <<>>
    /\ uuid_count = 0
    /\ requests = <<>>
    /\ store = <<>>
    /\ resp = Response("none", 200, "", "", {}, <<>>, FALSE)
    /\ running = TRUE
    /\ tool \in {[NoToolCall EXCEPT !.pc = "call", !.response = r, !.new_requests = n] :
                    r \in ApiResponses, n \in BOOLEAN}

NextTools ==
    \/ ToolCall
    \/ \E propagates \in BOOLEAN : SendEnds(propagates)

SpecTools == InitTools /\ [][NextTools]_vars

(***************************************************************************)
(* Properties.                                                             *)
(***************************************************************************)
CachedAgents == {agents_cache[k] : k \in DOMAIN agents_cache}

DrivenAgents == {requests[i].agent : i \in {j \in DOMAIN requests : InFlight(requests[j])}}

\* An Agent is live while it is cached or a stream in flight still drives it.
LiveAgents == CachedAgents \cup DrivenAgents

Resolved(i) == i \in DOMAIN requests /\ requests[i].status = 200

\* C1: in every reachable state there is at most one live Agent instance
\* (cached, or driven by a stream in flight) per (owner, session) pair.
C1_AtMostOneLiveAgentPerSession ==
    \A a, b \in LiveAgents : agents[a] = agents[b] => a = b

\* C2: requests that resolve the same (owner, session_id), with no removal of
\* the entry since the earlier one resolved, get the same Agent instance, and
\* only the first of them constructs it.
C2_ConcurrentResolvesShareOneAgent ==
    \A i, j \in DOMAIN requests :
        ( /\ i < j /\ Resolved(i) /\ Resolved(j)
          /\ requests[i].req_session_id # None
          /\ requests[j].req_session_id = requests[i].req_session_id
          /\ requests[j].wallet_address = requests[i].wallet_address
          /\ ~requests[i].stale )
        => /\ requests[j].agent = requests[i].agent
           /\ ~requests[j].built

\* Two streams in flight at once on one (owner, session_id), one Agent.
C2_Witness ==
    \E i, j \in DOMAIN requests :
        /\ i < j /\ InFlight(requests[i]) /\ InFlight(requests[j])
        /\ requests[i].req_session_id = Some("s")
        /\ requests[j].req_session_id = Some("s")
        /\ requests[j].wallet_address = requests[i].wallet_address
        /\ requests[i].built /\ ~requests[i].stale
        /\ requests[j].agent = requests[i].agent

\* The request a step has just added, if it added one.
Arrived == Len(requests') = Len(requests) + 1

Newest == requests'[Len(requests')]

\* C3: once resolve(owner, none) returned the minted id m, a resolve(owner, m)
\* with no removal of the entry in between is a cache hit: the same Agent,
\* the same id m, and no construction.
C3_MintedIdIsCacheHit ==
    \A i, j \in DOMAIN requests :
        ( /\ i < j /\ Resolved(i) /\ Resolved(j)
          /\ requests[i].req_session_id = None
          /\ requests[j].wallet_address = requests[i].wallet_address
          /\ requests[j].req_session_id = Some(requests[i].session_id)
          /\ ~requests[i].stale )
        => /\ requests[j].agent = requests[i].agent
           /\ requests[j].session_id = requests[i].session_id
           /\ ~requests[j].built

\* A buffered Send minted u1, and a stream then resolved (owner, u1).
C3_Witness ==
    \E i, j \in DOMAIN requests :
        /\ i < j
        /\ requests[i].kind = "chat" /\ requests[i].req_session_id = None
        /\ requests[i].built /\ requests[i].session_id = Uuid(1)
        /\ requests[j].kind = "stream" /\ requests[j].req_session_id = Some(Uuid(1))
        /\ requests[j].wallet_address = requests[i].wallet_address
        /\ requests[j].agent = requests[i].agent
        /\ PlainKey(requests[i].wallet_address, Uuid(1)) \in DOMAIN agents_cache

\* C4: every resolve that omits the session id constructs a new Agent with a
\* freshly minted session id: never an Agent or a session id of an earlier
\* request.
C4_OmittedIdAlwaysConstructs ==
    \A i \in DOMAIN requests :
        (Resolved(i) /\ requests[i].req_session_id = None)
        => /\ requests[i].built
           /\ \A j \in 1..(i - 1) :
                 Resolved(j) => /\ requests[j].agent # requests[i].agent
                                /\ requests[j].session_id # requests[i].session_id

\* C5: the cache never holds an entry under the placeholder key owner:new
\* once a resolve has completed.
C5_NoPlaceholderEntry ==
    \A w \in Wallets : PlainKey(w, "new") \notin DOMAIN agents_cache

\* C6: a resolve that names a session id whose entry exists returns that
\* entry's Agent, constructs nothing and leaves the cache as it was.
C6_HitLeavesCacheUnchanged ==
    [][ \A w \in Wallets, s \in KnownSessionIds :
          ( /\ Arrived
            /\ Newest.wallet_address = w /\ Newest.req_session_id = Some(s)
            /\ PlainKey(w, s) \in DOMAIN agents_cache )
          => /\ Newest.status = 200
             /\ Newest.agent = agents_cache[PlainKey(w, s)]
             /\ ~Newest.built
             /\ agents_cache' = agents_cache
             /\ agents' = agents
             /\ uuid_count' = uuid_count ]_vars

C6_Witness ==
    \E i \in DOMAIN requests :
        /\ Resolved(i) /\ ~requests[i].built
        /\ requests[i].req_session_id = Some("s")
        /\ PlainKey(requests[i].wallet_address, "s") \in DOMAIN agents_cache
        /\ agents_cache[PlainKey(requests[i].wallet_address, "s")] = requests[i].agent

\* C7: when the construction of a new Agent fails, the Send fails (500), the
\* cache and the list of instances are as before the call, and resolving the
\* same key again attempts a construction again.
C7_FailedConstructionLeavesNoEntry ==
    [][ \A w \in Wallets, s \in OptSessionIds :
          ( /\ CacheKey(w, s) \notin DOMAIN agents_cache
            /\ \/ ChatStream(w, s, FALSE)
               \/ \E run \in Runs : Chat(w, s, FALSE, run) )
          => /\ Newest.status = 500 /\ Newest.agent = 0 /\ Newest.events = <<>>
             /\ agents_cache' = agents_cache
             /\ agents' = agents
             /\ get_or_create_agent(agents_cache', agents', uuid_count',
                                    w, s, TRUE).built ]_vars

\* A Send failed in the construction and a later Send of the same key built.
C7_Witness ==
    \E i, j \in DOMAIN requests :
        /\ i < j
        /\ requests[i].status = 500
        /\ requests[j].wallet_address = requests[i].wallet_address
        /\ requests[j].req_session_id = requests[i].req_session_id
        /\ requests[j].status = 200 /\ requests[j].built

\* C8: DELETE answers 200 whether or not the entry exists, and a second
\* DELETE of the same key right after answers 200 too and changes nothing.
C8_EvictIsIdempotent ==
    [][ \A w \in Wallets, s \in KnownSessionIds :
          DeleteSession(w, s)
          => /\ resp'.status = 200
             /\ PlainKey(w, s) \notin DOMAIN agents_cache'
             /\ LET again == delete_session(agents_cache', store', w, s)
                IN  /\ again.status = 200
                    /\ again.cache = agents_cache'
                    /\ again.store = store' ]_vars

\* A DELETE of a key whose entry an earlier DELETE had already removed.
C8_Witness ==
    /\ running
    /\ resp.op = "delete" /\ resp.status = 200 /\ ~resp.existed
    /\ \E i \in DOMAIN requests :
          /\ requests[i].stale
          /\ requests[i].wallet_address = resp.wallet_address
          /\ requests[i].session_id = resp.session_id

\* C9: neither DELETE nor the shutdown clear changes the Session Store: the
\* sessions listed for every owner and the history of every session stay.
C9_EvictAndClearKeepStore ==
    [][ ((\E w \in Wallets, s \in KnownSessionIds : DeleteSession(w, s)) \/ Shutdown)
        => /\ store' = store
           /\ \A w \in Wallets :
                 list_sessions(store', w, TRUE) = list_sessions(store, w, TRUE)
           /\ \A s \in KnownSessionIds :
                 load_session_history(store', s, TRUE)
                    = load_session_history(store, s, TRUE) ]_vars

\* A DELETE removed the entry of a session that has a stored exchange.
C9_Witness ==
    /\ resp.op = "delete" /\ resp.existed
    /\ resp.session_id \in list_sessions(store, resp.wallet_address, TRUE)
    /\ load_session_history(store, resp.session_id, TRUE) # <<>>
    /\ PlainKey(resp.wallet_address, resp.session_id) \notin DOMAIN agents_cache

Terminal(e) == e.type \in {"complete", "error"}

\* The events of a stream, as far as sent: session_info first and only
\* first, then content events, and a terminal event only in the last place.
Ordered(ev) ==
    /\ ev # <<>> => ev[1].type = "session_info"
    /\ \A k \in 2..Len(ev) : ev[k].type \in {"content", "complete", "error"}
    /\ \A k \in 1..(Len(ev) - 1) : ~Terminal(ev[k])

\* C10: the stream of an incremental Send whose Agent was resolved is one
\* session_info event, then content events, then exactly one terminal event
\* (complete or error) in the last place: a stream that has ended has its
\* terminal event, and nothing is sent after it.  A stream the client closed
\* early is the same sequence cut short.
C10_StreamShape ==
    \A i \in DOMAIN requests :
        (requests[i].kind = "stream" /\ requests[i].status = 200)
        => LET ev == requests[i].events
               pc == requests[i].pc
           IN  /\ Ordered(ev)
               /\ pc = "start" <=> (ev = <<>> /\ pc # "closed")
               /\ pc = "done" <=> (ev # <<>> /\ Terminal(ev[Len(ev)]))
               /\ pc = "done" => Len(ev) >= 2

\* One stream ended session_info, content, complete and another one
\* session_info, error.
C10_Witness ==
    \E i, j \in DOMAIN requests :
        /\ requests[i].pc = "done" /\ Len(requests[i].events) = 3
        /\ requests[i].events[2].type = "content"
        /\ requests[i].events[3].type = "complete"
        /\ requests[j].pc = "done" /\ Len(requests[j].events) = 2
        /\ requests[j].events[2].type = "error"

Streams == {i \in DOMAIN requests : requests[i].kind = "stream" /\ requests[i].status = 200}

\* C11: when agent.run raises after k fragments, the stream ends with one
\* error event right after the k content events: the step of the failure
\* appends an error event and nothing else, and ends the stream.
C11_RaiseEndsWithErrorEvent ==
    [][ \A i \in 1..MaxRequests :
          StreamNext(i, Raise)
          => /\ requests'[i].pc = "done"
             /\ Len(requests'[i].events) = Len(requests[i].events) + 1
             /\ requests'[i].events[Len(requests'[i].events)].type = "error" ]_vars

C13_NoBlankContentEvent ==
    \A i \in Streams :
        \A k \in DOMAIN requests[i].events :
            requests[i].events[k].type = "content"
            => /\ requests[i].events[k].content # <<>>
               /\ \E c \in DOMAIN requests[i].events[k].content :
                     ~IsSpace(requests[i].events[k].content[c])

\* Two chunks were consumed and the stream ended with no content event.
C13_Witness ==
    \E i \in Streams :
        /\ requests[i].pc = "done" /\ requests[i].pulled = 3
        /\ Len(requests[i].events) = 2
        /\ requests[i].events[2].type = "complete"

FailedResolves == {i \in DOMAIN requests : requests[i].pc = "failed"}

\* C14: a failed resolution reaches the caller of an incremental
\* Send as a stream of one error event, and the caller of a buffered Send as
\* a request-level failure.
C14_FailedResolveYieldsErrorEvent ==
    \A i \in FailedResolves :
        IF requests[i].kind = "stream"
        THEN /\ Len(requests[i].events) = 1
             /\ requests[i].events[1].type = "error"
        ELSE requests[i].status = 500

\* What chat_stream does instead (app.py:296, 348-349): a failed resolution
\* is a request-level failure (500) for a buffered and for an incremental
\* Send alike: no event
\* is ever sent, no Agent is bound, and nothing is constructed by a retry
\* (every Agent was constructed by the one resolve of a request).
FailedResolveIsRequestFailure ==
    /\ \A i \in FailedResolves :
          /\ requests[i].status = 500
          /\ requests[i].events = <<>>
          /\ requests[i].agent = 0
          /\ requests[i].reply = <<>>
    /\ Len(agents) = Cardinality({i \in DOMAIN requests : requests[i].built})

\* A buffered and an incremental Send both failed in the resolution.
FailedResolveWitness ==
    \E i, j \in FailedResolves :
        /\ requests[i].kind = "stream" /\ requests[j].kind = "chat"
        /\ requests[i].status = 500 /\ requests[j].status = 500

MintedIds == {Uuid(n) : n \in 1..uuid_count}

\* Every stream opens with session_info, and each of its events carries the
\* session id the resolve returned and the owner of the request.
StreamEventsCarryResolvedId ==
    \A i \in Streams :
        /\ requests[i].events # <<>> => requests[i].events[1].type = "session_info"
        /\ \A k \in 1..Len(requests[i].events) :
              /\ requests[i].events[k].session_id = requests[i].session_id
              /\ requests[i].events[k].wallet_address = requests[i].wallet_address
              /\ k > 1 => requests[i].events[k].type # "session_info"

\* C15: the session_info event comes before any content event and carries
\* the resolved session id, which is a newly minted one when the request
\* omitted the id; every later event of the stream carries that id and the
\* owner of the request.
C15_SessionInfoCarriesResolvedId ==
    /\ StreamEventsCarryResolvedId
    /\ \A i \in Streams :
          (requests[i].req_session_id = None /\ requests[i].events # <<>>)
          => requests[i].events[1].session_id \in MintedIds

\* C16: a session id belongs to one owner: no two cache entries and no two
\* live Agents bind the same session id to different owners.
C16_SessionHasOneOwner ==
    \A a, b \in LiveAgents :
        agents[a].session_id = agents[b].session_id
        => agents[a].user_id = agents[b].user_id

\* The same for the ids the gateway minted itself.
MintedSessionHasOneOwner ==
    \A a, b \in LiveAgents :
        (agents[a].session_id \in MintedIds /\ agents[a].session_id = agents[b].session_id)
        => agents[a].user_id = agents[b].user_id

\* C17: an Agent is bound to one (owner, session id) pair: the Agent a
\* resolve returns for a pair is bound to that owner and that id, and the
\* resolves of two distinct pairs never return the same Agent, whatever the
\* strings are.
C17_AgentBoundToOnePair ==
    \A i, j \in {k \in DOMAIN requests : Resolved(k) /\ requests[k].req_session_id # None} :
        /\ agents[requests[i].agent].user_id = requests[i].wallet_address
        /\ agents[requests[i].agent].session_id = requests[i].req_session_id[1]
        /\ requests[i].agent = requests[j].agent
           => /\ requests[i].wallet_address = requests[j].wallet_address
              /\ requests[i].req_session_id = requests[j].req_session_id

\* C19: the list of an owner's sessions is exactly the ids the store holds
\* for that owner, whatever the cache holds, with status 200 also when there
\* are none; the cache is not touched.
C19_ListIsTheStoresIdsOfTheOwner ==
    [][ \A w \in AnyWallets :
          GetSessions(w, TRUE)
          => /\ resp'.status = 200
             /\ resp'.sessions =
                  {store[k].session_id : k \in {j \in DOMAIN store : store[j].user_id = w}}
             /\ agents_cache' = agents_cache ]_vars

\* The sessions of an owner listed after their Agents were evicted, while
\* the store holds a session of another owner too.
C19_Witness ==
    /\ resp.op = "sessions" /\ resp.status = 200
    /\ resp.sessions # {}
    /\ agents_cache = EmptyDict
    /\ \E k \in DOMAIN store : store[k].user_id # resp.wallet_address

\* No session of the owner: an empty list with status 200.
NoSessionsListed ==
    /\ resp.op = "sessions" /\ resp.status = 200 /\ resp.sessions = {}
    /\ store # <<>>
    /\ \A k \in DOMAIN store : store[k].user_id # resp.wallet_address

\* C20: the history of a session is not scoped by the owner: it is the
\* exchanges the store holds for the session id, the same for every owner
\* named in the request.
C20_HistoryIgnoresOwner ==
    [][ \A w \in AnyWallets, s \in AnySessionIds :
          GetSessionHistory(w, s, TRUE)
          => /\ resp'.history = MessagesOf(store, s)
             /\ \A v \in AnyWallets :
                   get_session_history(store, v, s, TRUE) = resp'.history ]_vars

\* A history read by an owner who never resolved the session.
C20_Witness ==
    /\ resp.op = "history" /\ resp.history # <<>>
    /\ \A k \in DOMAIN store :
          store[k].session_id = resp.session_id => store[k].user_id # resp.wallet_address
    /\ \A i \in DOMAIN requests : requests[i].wallet_address # resp.wallet_address

\* C18: the exchanges of a session stand in its transcript in the order in
\* which their requests arrived (requests are numbered as they arrive).
C18_TranscriptInArrivalOrder ==
    \A k1, k2 \in DOMAIN store :
        (k1 < k2 /\ store[k1].session_id = store[k2].session_id)
        => store[k1].req < store[k2].req

RaisingRun == [raises |-> TRUE, content |-> <<>>]

\* C21: a buffered Send either succeeds with the reply of the Agent or
\* reports a failure: when agent.run raises, the caller is not answered with
\* a successful response.
C21_RunFailureIsNotSuccess ==
    [][ \A w \in Wallets, s \in OptSessionIds :
          Chat(w, s, TRUE, RaisingRun) => Newest.status # 200 ]_vars

Closed == {i \in DOMAIN requests : requests[i].pc = "closed"}

Failing(response) == response.kind = "network_error" \/ response.status_code # 200

\* C23: a failure of the tool's request (a network error or a non-success
\* status) never aborts the exchange: the tool returns a text describing
\* the failure and does not raise, and the Send ends with a reply
\* (buffered) or a complete event (incremental).
C23_ToolFailureIsText ==
    (tool.pc \in {"returned", "ended"} /\ Failing(tool.response))
    => /\ tool.result.raised = ""
       /\ tool.result.text # ""
       /\ tool.pc = "ended"
          => /\ tool.reply # <<>>
             /\ tool.events[Len(tool.events)].type = "complete"

\* Whatever the tool does, the Send that called it ends with a reply
\* (buffered) and a complete event (incremental).
SendEndsAfterToolCall ==
    tool.pc = "ended"
    => /\ tool.reply # <<>>
       /\ tool.events[Len(tool.events)].type = "complete"

\* The same claim for requests 2.27 and later, where a body that is not
\* JSON is caught as a RequestException.
ToolFailureIsTextNewRequests ==
    (tool.pc \in {"returned", "ended"} /\ Failing(tool.response) /\ tool.new_requests)
    => tool.result.raised = ""

HasTerminal(i) ==
    \E k \in 1..Len(requests[i].events) : Terminal(requests[i].events[k])

\* C24: every stream whose resolution succeeded eventually has a terminal
\* event (complete or error) when its connection stays open, the run ends
\* and the tasks are scheduled fairly, whatever other streams are
\* interleaved with it.
C24_StreamEventuallyTerminal ==
    \A i \in 1..MaxRequests :
        (i \in Streams) ~> (i \in Streams /\ HasTerminal(i))

\* Two streams on one session, interleaved: the later one has its terminal
\* event while the earlier one is still between two of its content events.
C24_Witness ==
    \E i, j \in Streams :
        /\ i < j
        /\ requests[i].agent = requests[j].agent
        /\ HasTerminal(j) /\ requests[j].pc = "done"
        /\ requests[i].pc = "streaming" /\ Len(requests[i].events) = 2

\* The Agent of a cache entry is bound to another pair than (w, s).
OtherEntry(k, w, s) ==
    agents[agents_cache[k]].user_id # w \/ agents[agents_cache[k]].session_id # s

\* C25: an eviction of (owner, session id) removes at most the entry of
\* that owner and session id: the entries of every other session and of
\* every other owner keep their keys and their Agents.
C25_EvictKeepsOtherEntries ==
    [][ \A w \in AnyWallets, s \in AnySessionIds \cup MintedIds :
          DeleteSession(w, s)
          => \A k \in DOMAIN agents_cache :
                OtherEntry(k, w, s)
                => k \in DOMAIN agents_cache' /\ agents_cache'[k] = agents_cache[k] ]_vars

\* What delete_session guarantees (app.py:387-389): every key other than
\* f"{wallet_address}:{session_id}" keeps its entry.
EvictRemovesOnlyItsKey ==
    [][ \A w \in AnyWallets, s \in AnySessionIds \cup MintedIds :
          DeleteSession(w, s)
          => \A k \in DOMAIN agents_cache :
                k # PlainKey(w, s)
                => k \in DOMAIN agents_cache' /\ agents_cache'[k] = agents_cache[k] ]_vars

\* C26: a resolve that is given a session id returns that id, on a miss
\* and on a hit, for all strings, so the reply of a buffered Send and every
\* event of a stream carry the session id the client sent.
C26_ResolveReturnsSentId ==
    \A i \in DOMAIN requests :
        (Resolved(i) /\ requests[i].req_session_id # None)
        => /\ requests[i].session_id = requests[i].req_session_id[1]
           /\ \A k \in 1..Len(requests[i].events) :
                 requests[i].events[k].session_id = requests[i].req_session_id[1]

\* A step that removes entries from the cache and adds none: an eviction
\* or the clearing at shutdown.
Evicting ==
    /\ DOMAIN agents_cache' \subseteq DOMAIN agents_cache
    /\ DOMAIN agents_cache' # DOMAIN agents_cache

\* The request but for the ghost field.
Visible(r) == [r EXCEPT !.stale = FALSE]

\* C27: a stream in flight when its session is evicted or the cache is
\* cleared goes on with the Agent it resolved (the eviction changes nothing
\* of any request, no request ever changes its Agent, and a stream that ran
\* to its end after the eviction closes with one terminal event); a resolve
\* of an evicted (owner, session id) constructs a new Agent bound to that
\* session id, never one that was evicted.
C27_EvictedStreamGoesOn ==
    /\ [][ /\ \A i \in DOMAIN requests :
                /\ requests'[i].agent = requests[i].agent
                /\ requests'[i].session_id = requests[i].session_id
           /\ Evicting => \A i \in DOMAIN requests : Visible(requests'[i]) = Visible(requests[i])
           /\ (Arrived /\ Newest.status = 200)
              => /\ \A i \in DOMAIN requests :
                       requests[i].stale => Newest.agent # requests[i].agent
                 /\ (Newest.req_session_id # None
                     /\ PlainKey(Newest.wallet_address, Newest.req_session_id[1])
                           \notin DOMAIN agents_cache)
                    => /\ Newest.built
                       /\ Newest.agent \notin 1..Len(agents)
                       /\ agents'[Newest.agent] =
                             [session_id |-> Newest.req_session_id[1],
                              user_id |-> Newest.wallet_address] ]_vars
    /\ [](\A i \in DOMAIN requests :
             (requests[i].kind = "stream" /\ requests[i].stale /\ requests[i].pc = "done")
             => /\ Terminal(requests[i].events[Len(requests[i].events)])
                /\ \A k \in 1..(Len(requests[i].events) - 1) :
                      ~Terminal(requests[i].events[k]))

\* A stream on a session that was evicted while the stream was in flight
\* has run to its complete event, after a later request of the same owner
\* and session id was given a new Agent bound to the same session id.
C27_Witness ==
    \E i, j \in DOMAIN requests :
        /\ i < j
        /\ requests[i].kind = "stream" /\ requests[i].stale /\ requests[i].pc = "done"
        /\ requests[i].events[Len(requests[i].events)].type = "complete"
        /\ requests[j].status = 200 /\ requests[j].built /\ ~requests[j].stale
        /\ requests[j].wallet_address = requests[i].wallet_address
        /\ requests[j].req_session_id = requests[i].req_session_id
        /\ requests[j].agent # requests[i].agent
        /\ agents[requests[j].agent].session_id = agents[requests[i].agent].session_id

\* C28: cache entries are created only by the resolve of a Send: the other
\* endpoints never add one, and no entry is removed but by an eviction (or
\* the clearing at shutdown): a Send keeps every entry that was there.
C28_OnlySendsAddOnlyEvictionsRemove ==
    [][ /\ \A w \in AnyWallets, ok \in BOOLEAN :
              /\ GetSessions(w, ok) => agents_cache' = agents_cache
              /\ \A s \in AnySessionIds :
                    GetSessionHistory(w, s, ok) => agents_cache' = agents_cache
        /\ HealthCheck => agents_cache' = agents_cache
        /\ ~Arrived => DOMAIN agents_cache' \subseteq DOMAIN agents_cache
        /\ Arrived => \A k \in DOMAIN agents_cache :
                         k \in DOMAIN agents_cache' /\ agents_cache'[k] = agents_cache[k]
        /\ (agents_cache' # agents_cache /\ ~Arrived)
           => /\ resp'.op \in {"delete", "shutdown"}
              /\ agents' = agents ]_vars

\* A read endpoint answered while the cache holds the entries of two Sends.
C28_Witness ==
    /\ resp.op \in {"sessions", "history", "health"}
    /\ Cardinality(DOMAIN agents_cache) = 2
    /\ \A i \in DOMAIN requests : requests[i].built

\* The event a step added to stream i.
Sent(i) == requests'[i].events[Len(requests'[i].events)]

\* C29: with several streams in flight, on one session or on several, a
\* step sends at most one event, to one stream, behind the events that
\* stream already has; the event carries the session id and the owner of
\* that stream's request, and a content event is what the run of that very
\* request yielded at this step.
C29_StreamsDoNotMix ==
    [][ \A i \in DOMAIN requests :
          /\ Len(requests'[i].events) \in {Len(requests[i].events), Len(requests[i].events) + 1}
          /\ SubSeq(requests'[i].events, 1, Len(requests[i].events)) = requests[i].events
          /\ Len(requests'[i].events) > Len(requests[i].events)
             => /\ \A j \in DOMAIN requests \ {i} : requests'[j] = requests[j]
                /\ Sent(i).session_id = requests[i].session_id
                /\ Sent(i).wallet_address = requests[i].wallet_address
                /\ Sent(i).type = "content"
                   => \E step \in RunSteps :
                         /\ StreamNext(i, step)
                         /\ chat_with_agent_streaming(step) # <<>>
                         /\ chat_with_agent_streaming(step)[1].text = Sent(i).content ]_vars

\* Two streams that drove one cached Agent at once have ended with
\* different events: the first with a fragment and complete, the second
\* with the error text of its own run and complete.
C29_Witness ==
    \E i, j \in Streams :
        /\ i < j
        /\ requests[i].agent = requests[j].agent
        /\ requests[i].pc = "done" /\ requests[j].pc = "done"
        /\ Len(requests[i].events) = 3 /\ requests[i].events[2].content = <<"h", "i">>
        /\ Len(requests[j].events) = 3 /\ requests[j].events[2].content = ErrorText

\* C30: a failure of the store read is turned into an empty result: the
\* answers of List sessions and of Load history are then the answers a store
\* without any exchange gives, with status 200.
C30_StoreFailureLooksEmpty ==
    [][ \A w \in AnyWallets :
          /\ GetSessions(w, FALSE)
             => /\ resp'.status = 200 /\ resp'.sessions = {}
                /\ resp' = Response("sessions", 200, w, "",
                                    list_sessions(<<>>, w, TRUE), <<>>, FALSE)
          /\ \A s \in AnySessionIds :
                GetSessionHistory(w, s, FALSE)
                => /\ resp'.status = 200 /\ resp'.history = <<>>
                   /\ resp' = Response("history", 200, w, s, {},
                                       load_session_history(<<>>, s, TRUE), FALSE) ]_vars

\* An empty history returned for a session of which the store holds an
\* exchange.
C30_Witness ==
    /\ resp.op = "history" /\ resp.status = 200 /\ resp.history = <<>>
    /\ \E k \in DOMAIN store : store[k].session_id = resp.session_id

\* An empty list returned for an owner of whom the store holds a session.
StoreFailureListsNothing ==
    /\ resp.op = "sessions" /\ resp.status = 200 /\ resp.sessions = {}
    /\ \E k \in DOMAIN store : store[k].user_id = resp.wallet_address

====
